---- MODULE Spec2Model ----
(***************************************************************************)
(* Ray/scene intersection and material scattering of tracer-rs             *)
(* (src/hitable.rs, src/material.rs).                                      *)
(*                                                                         *)
(* Numbers are exact rationals <<n, d>> in lowest terms with d > 0.  The   *)
(* scenes and rays enumerated below are ones on which every square root    *)
(* the program takes is the square root of a perfect rational square, so   *)
(* the arithmetic below is the arithmetic of the program without rounding. *)
(***************************************************************************)
EXTENDS Integers, Sequences, FiniteSets, TLC

VARIABLES r, t_min, t_max, items,
          pc, idx, closest_so_far, intersect, winner, queries,
          mat, rand, attenuation, scattered

vars == <<r, t_min, t_max, items, pc, idx, closest_so_far, intersect,
          winner, queries, mat, rand, attenuation, scattered>>

MaxItems == 2

(***************************************************************************)
(* f64 arithmetic, exact on the values used                                *)
(***************************************************************************)
Abs(n) == IF n < 0 THEN -n ELSE n

RECURSIVE Gcd(_, _)
Gcd(a, b) == IF b = 0 THEN a ELSE Gcd(b, a % b)

Q(n, d) ==
    LET s == IF d < 0 THEN -1 ELSE 1
        g == Gcd(Abs(n), Abs(d))
    IN  <<(s * n) \div g, (s * d) \div g>>

I(n) == <<n, 1>>

Zero == I(0)

One == I(1)

QAdd(x, y) == Q(x[1] * y[2] + y[1] * x[2], x[2] * y[2])

QNeg(x) == <<-x[1], x[2]>>

QSub(x, y) == QAdd(x, QNeg(y))

QMul(x, y) == Q(x[1] * y[1], x[2] * y[2])

QDiv(x, y) == Q(x[1] * y[2], x[2] * y[1])

QLt(x, y) == x[1] * y[2] < y[1] * x[2]

QGt(x, y) == QLt(y, x)

RECURSIVE RootFrom(_, _)
RootFrom(n, s) == IF s * s >= n THEN s ELSE RootFrom(n, s + 1)

ISqrt(n) == RootFrom(n, 0)

IsSquare(n) == ISqrt(n) * ISqrt(n) = n

\* the values on which f64::sqrt is exact
ExactSqrt(x) == x[1] >= 0 /\ IsSquare(x[1]) /\ IsSquare(x[2])

Sqrt(x) == <<ISqrt(x[1]), ISqrt(x[2])>>

(***************************************************************************)
(* Vector and Ray                                                          *)
(***************************************************************************)
V(x, y, z) == <<I(x), I(y), I(z)>>

VAdd(u, v) == <<QAdd(u[1], v[1]), QAdd(u[2], v[2]), QAdd(u[3], v[3])>>

VSub(u, v) == <<QSub(u[1], v[1]), QSub(u[2], v[2]), QSub(u[3], v[3])>>

VScale(u, k) == <<QMul(u[1], k), QMul(u[2], k), QMul(u[3], k)>>

VDiv(u, k) == <<QDiv(u[1], k), QDiv(u[2], k), QDiv(u[3], k)>>

Dot(u, v) == QAdd(QAdd(QMul(u[1], v[1]), QMul(u[2], v[2])), QMul(u[3], v[3]))

Normalize(u) == VDiv(u, Sqrt(Dot(u, u)))

Reflect(v, n) == VSub(v, VScale(n, QMul(I(2), Dot(v, n))))

PointAt(ray, t) == VAdd(ray.origin, VScale(ray.direction, t))

(***************************************************************************)
(* Intersection                                                            *)
(***************************************************************************)
Miss == [kind |-> "Miss"]

Hit(t, position, normal, material) ==
    [kind |-> "Hit", t |-> t, position |-> position, normal |-> normal,
     material |-> material]

(***************************************************************************)
(* Sphere::hit                                                             *)
(***************************************************************************)
Oc(s, ray) == VSub(ray.origin, s.center)

A(ray) == Dot(ray.direction, ray.direction)

B(s, ray) == Dot(Oc(s, ray), ray.direction)

C(s, ray) == QSub(Dot(Oc(s, ray), Oc(s, ray)), QMul(s.radius, s.radius))

Discriminant(s, ray) ==
    QSub(QMul(B(s, ray), B(s, ray)), QMul(A(ray), C(s, ray)))

\* the textbook formula (-b - sqrt(disc)) / 2a applied to the half-b coefficients
SmallRootFullForm(s, ray) ==
    QDiv(QSub(QNeg(B(s, ray)), Sqrt(Discriminant(s, ray))), QMul(I(2), A(ray)))

SmallRoot(s, ray) ==
    QDiv(QSub(QNeg(B(s, ray)), Sqrt(Discriminant(s, ray))), A(ray))

LargeRoot(s, ray) ==
    QDiv(QAdd(QNeg(B(s, ray)), Sqrt(Discriminant(s, ray))), A(ray))

\* the interval test with the end points let in
InIntervalClosed(temp, tmin, tmax) == ~QGt(temp, tmax) /\ ~QLt(temp, tmin)

InInterval(temp, tmin, tmax) == QLt(temp, tmax) /\ QGt(temp, tmin)

HitAt(s, ray, t) ==
    LET position == PointAt(ray, t)
        normal   == VDiv(VSub(position, s.center), s.radius)
    IN  Hit(t, position, normal, s.material)

\* the discriminant test as >= 0.0: a tangent ray is solved like any other
SphereHitTangent(s, ray, tmin, tmax) ==
    IF ~QLt(Discriminant(s, ray), Zero)
    THEN IF InInterval(SmallRoot(s, ray), tmin, tmax)
         THEN HitAt(s, ray, SmallRoot(s, ray))
         ELSE IF InInterval(LargeRoot(s, ray), tmin, tmax)
              THEN HitAt(s, ray, LargeRoot(s, ray))
              ELSE Miss
    ELSE Miss

\* the larger root tested before the smaller one
SphereHitLargeFirst(s, ray, tmin, tmax) ==
    IF QGt(Discriminant(s, ray), Zero)
    THEN IF InInterval(LargeRoot(s, ray), tmin, tmax)
         THEN HitAt(s, ray, LargeRoot(s, ray))
         ELSE IF InInterval(SmallRoot(s, ray), tmin, tmax)
              THEN HitAt(s, ray, SmallRoot(s, ray))
              ELSE Miss
    ELSE Miss

SphereHit(s, ray, tmin, tmax) ==
    IF QGt(Discriminant(s, ray), Zero)
    THEN IF InInterval(SmallRoot(s, ray), tmin, tmax)
         THEN HitAt(s, ray, SmallRoot(s, ray))
         ELSE IF InInterval(LargeRoot(s, ray), tmin, tmax)
              THEN HitAt(s, ray, LargeRoot(s, ray))
              ELSE Miss
    ELSE Miss

(***************************************************************************)
(* Materials (Arc<Material>): a handle is an index into this table         *)
(***************************************************************************)
Materials ==
    <<[kind |-> "Lambertian", albedo |-> <<Q(1, 2), Q(1, 2), Q(1, 2)>>],
      [kind |-> "Metallic",   albedo |-> <<Q(4, 5), Q(3, 5), Q(1, 5)>>]>>

MaterialIds == DOMAIN Materials

(***************************************************************************)
(* The scenes, rays and intervals explored                                 *)
(***************************************************************************)
Sphere(center, radius, material) ==
    [center |-> center, radius |-> radius, material |-> material]

Spheres ==
    { Sphere(V(0, 0, 0), I(5), 1),
      Sphere(V(0, 0, 0), I(5), 2),
      Sphere(V(0, 0, 10), I(5), 1),
      Sphere(V(0, 0, -4), I(1), 2) }

Ray(origin, direction) == [origin |-> origin, direction |-> direction]

Rays ==
    { Ray(V(0, 0, -9), V(0, 0, 1)),
      Ray(V(3, 0, -9), V(0, 0, 1)),
      Ray(V(5, 0, -9), V(0, 0, 1)),
      Ray(V(0, 0, -9), V(0, 0, 2)),
      Ray(V(0, 0, 0),   V(0, 0, 1)),
      Ray(V(-6, -8, 0), V(3, 4, 0)) }

Intervals ==
    { <<Q(1, 1000), I(1000)>>, <<I(0), I(3)>>, <<I(5), I(1000)>>,
      <<I(4), I(14)>> }

RECURSIVE SeqsUpTo(_, _)
SeqsUpTo(S, n) ==
    IF n = 0 THEN {<<>>}
    ELSE LET shorter == SeqsUpTo(S, n - 1)
         IN  shorter \cup {Append(q, s) : q \in shorter, s \in S}

\* every square root Sphere::hit and normalize() take on this input is exact
ExactInput(ray, its) ==
    /\ ExactSqrt(Dot(ray.direction, ray.direction))
    /\ \A k \in DOMAIN its :
          QGt(Discriminant(its[k], ray), Zero)
              => ExactSqrt(Discriminant(its[k], ray))

RandomInUnitSphere ==
    { V(0, 0, 0), <<Q(1, 2), I(0), I(0)>>, <<Q(-1, 2), Q(1, 2), Q(1, 2)>> }

None == [some |-> FALSE]

Some(ray) == [some |-> TRUE, ray |-> ray]

(***************************************************************************)
(* HitableList::hit, one loop iteration per step                           *)
(***************************************************************************)
Init ==
    /\ r \in Rays
    /\ \E iv \in Intervals : t_min = iv[1] /\ t_max = iv[2]
    /\ items \in SeqsUpTo(Spheres, MaxItems)
    /\ ExactInput(r, items)
    /\ pc = "hit"
    /\ idx = 1
    /\ intersect = Miss
    /\ closest_so_far = t_max
    /\ winner = 0
    /\ queries = <<>>
    /\ mat = 0
    /\ rand = V(0, 0, 0)
    /\ attenuation = V(0, 0, 0)
    /\ scattered = None

\* the member queried with the shrinking bound
QueryBoundShrinking(tmax, closest) == closest

QueryBound(tmax, closest) == tmax

\* every Hit accepted: the last member that hits wins
AcceptsAny(cand, closest) == cand.kind = "Hit"

\* the comparison as <=: a later member at the same distance replaces the result
AcceptsTie(cand, closest) == cand.kind = "Hit" /\ ~QGt(cand.t, closest)

Accepts(cand, closest) == cand.kind = "Hit" /\ QLt(cand.t, closest)

HitStep ==
    /\ pc = "hit"
    /\ idx <= Len(items)
    /\ LET bound == QueryBound(t_max, closest_so_far)
           cand  == SphereHit(items[idx], r, t_min, bound)
       IN  /\ queries' = Append(queries,
                             [member |-> idx, t_min |-> t_min, t_max |-> bound,
                              closest |-> closest_so_far, result |-> cand])
           /\ IF Accepts(cand, closest_so_far)
              THEN /\ closest_so_far' = cand.t
                   /\ intersect' = Hit(cand.t, cand.position, cand.normal,
                                       cand.material)
                   /\ winner' = idx
              ELSE UNCHANGED <<closest_so_far, intersect, winner>>
    /\ idx' = idx + 1
    /\ UNCHANGED <<r, t_min, t_max, items, pc, mat, rand, attenuation, scattered>>

HitReturn ==
    /\ pc = "hit"
    /\ idx > Len(items)
    /\ pc' = "done"
    /\ UNCHANGED <<r, t_min, t_max, items, idx, closest_so_far, intersect,
                   winner, queries, mat, rand, attenuation, scattered>>

(***************************************************************************)
(* HitableList::hit as one function: the loop folded over the members      *)
(***************************************************************************)
RECURSIVE HitFrom(_, _, _, _, _, _, _)
HitFrom(its, k, ray, tmin, tmax, closest, result) ==
    IF k > Len(its) THEN result
    ELSE LET cand == SphereHit(its[k], ray, tmin, QueryBound(tmax, closest))
         IN  IF Accepts(cand, closest)
             THEN HitFrom(its, k + 1, ray, tmin, tmax, cand.t,
                          Hit(cand.t, cand.position, cand.normal, cand.material))
             ELSE HitFrom(its, k + 1, ray, tmin, tmax, closest, result)

HitableListHit(its, ray, tmin, tmax) ==
    HitFrom(its, 1, ray, tmin, tmax, tmax, Miss)

(***************************************************************************)
(* Material::scatter: the returned Option<Ray> and the attenuation left in *)
(* the caller's &mut Vector                                                *)
(***************************************************************************)
Scattered(ret, att) == [ret |-> ret, attenuation |-> att]

\* the target point taken for the direction
LambertianDirectionTarget(position, normal, rnd) ==
    VAdd(VAdd(position, normal), rnd)

LambertianDirection(position, normal, rnd) ==
    LET target == VAdd(VAdd(position, normal), rnd)
    IN  VSub(target, position)

\* the attenuation written before the match on the intersection
LambertianScatterResultWrites(m, isect, rnd, att) ==
    IF isect.kind = "Hit"
    THEN Scattered(Some(Ray(isect.position,
                            LambertianDirection(isect.position, isect.normal, rnd))),
                   Materials[m].albedo)
    ELSE Scattered(None, Materials[m].albedo)

LambertianScatterResult(m, isect, rnd, att) ==
    IF isect.kind = "Hit"
    THEN Scattered(Some(Ray(isect.position,
                            LambertianDirection(isect.position, isect.normal, rnd))),
                   Materials[m].albedo)
    ELSE Scattered(None, att)

\* the incident direction reflected without normalize()
ReflectedUnnormalized(incident, normal) == Reflect(incident.direction, normal)

Reflected(incident, normal) == Reflect(Normalize(incident.direction), normal)

MetallicScatterResult(m, incident, isect, att) ==
    IF isect.kind = "Hit"
    THEN LET reflected == Reflected(incident, isect.normal)
         IN  IF QGt(Dot(reflected, isect.normal), Zero)
             THEN Scattered(Some(Ray(isect.position, reflected)), Materials[m].albedo)
             ELSE Scattered(None, Materials[m].albedo)
    ELSE Scattered(None, att)

LambertianScatter(m, rnd) ==
    /\ pc = "done"
    /\ Materials[m].kind = "Lambertian"
    /\ mat' = m
    /\ rand' = rnd
    /\ LET res == LambertianScatterResult(m, intersect, rnd, attenuation)
       IN  scattered' = res.ret /\ attenuation' = res.attenuation
    /\ pc' = "scattered"
    /\ UNCHANGED <<r, t_min, t_max, items, idx, closest_so_far, intersect,
                   winner, queries>>

MetallicScatter(m) ==
    /\ pc = "done"
    /\ Materials[m].kind = "Metallic"
    /\ mat' = m
    /\ LET res == MetallicScatterResult(m, r, intersect, attenuation)
       IN  scattered' = res.ret /\ attenuation' = res.attenuation
    /\ pc' = "scattered"
    /\ UNCHANGED <<r, t_min, t_max, items, idx, closest_so_far, intersect,
                   winner, queries, rand>>

Next ==
    \/ HitStep
    \/ HitReturn
    \/ \E m \in MaterialIds, rnd \in RandomInUnitSphere : LambertianScatter(m, rnd)
    \/ \E m \in MaterialIds : MetallicScatter(m)

Spec == Init /\ [][Next]_vars

(***************************************************************************)
(* Properties                                                              *)
(***************************************************************************)
\* what member k reports for the ray and the caller's whole interval
MemberHit(k) == SphereHit(items[k], r, t_min, t_max)

HitMembers == {k \in DOMAIN items : MemberHit(k).kind = "Hit"}

RECURSIVE Orderings(_)
Orderings(S) ==
    IF S = {} THEN {<<>>}
    ELSE UNION { {<<x>> \o p : p \in Orderings(S \ {x})} : x \in S }

Reorderings(its) ==
    { [k \in DOMAIN its |-> its[p[k]]] : p \in Orderings(DOMAIN its) }

SameT(x, y) == x.kind = y.kind /\ (x.kind = "Hit" => x.t = y.t)

\* C1: the scan returns Miss iff every member misses; otherwise a Hit whose t
\* is the minimum t over the members' Hits; and the t returned is the same
\* for every permutation of the members.
C1_NearestHit ==
    pc = "done" =>
        /\ intersect.kind = "Miss" <=> HitMembers = {}
        /\ intersect.kind = "Hit" =>
              /\ \E k \in HitMembers : MemberHit(k).t = intersect.t
              /\ \A k \in HitMembers : ~QLt(MemberHit(k).t, intersect.t)
        /\ \A p \in Reorderings(items) :
              SameT(HitableListHit(p, r, t_min, t_max), intersect)

\* a later member is nearer than an earlier one that also hits
C1_Witness ==
    /\ pc = "done"
    /\ intersect.kind = "Hit"
    /\ winner > 1
    /\ \E k \in HitMembers : k < winner /\ QGt(MemberHit(k).t, intersect.t)

Disc(q) == Discriminant(items[q.member], r)

RootMinus(q) ==
    QDiv(QSub(QNeg(B(items[q.member], r)), Sqrt(Disc(q))), A(r))

RootPlus(q) ==
    QDiv(QAdd(QNeg(B(items[q.member], r)), Sqrt(Disc(q))), A(r))

Strictly(t, q) == QLt(q.t_min, t) /\ QLt(t, q.t_max)

Query(k) == queries[k]

\* C2: with discriminant > 0 (a # 0), Sphere.hit returns a Hit for the smaller
\* root when it lies strictly inside (t_min, t_max), otherwise a Hit for the
\* larger root when that one does, otherwise Miss; so a returned t is strictly
\* inside the interval.
C2_RootSelection ==
    \A k \in DOMAIN queries :
        LET q == Query(k) IN
        /\ (QGt(Disc(q), Zero) /\ A(r) # Zero) =>
              IF Strictly(RootMinus(q), q)
              THEN q.result.kind = "Hit" /\ q.result.t = RootMinus(q)
              ELSE IF Strictly(RootPlus(q), q)
                   THEN q.result.kind = "Hit" /\ q.result.t = RootPlus(q)
                   ELSE q.result = Miss
        /\ q.result.kind = "Hit" => Strictly(q.result.t, q)

\* the root t = 4 is shut out by t_min = 5 and the larger root is returned
C2_Witness ==
    \E k \in DOMAIN queries :
        LET q == Query(k) IN
        /\ QGt(Disc(q), Zero)
        /\ RootMinus(q) = I(4)
        /\ q.t_min = I(5)
        /\ q.result.kind = "Hit"
        /\ q.result.t = RootPlus(q)

\* C3: Sphere.hit returns Miss whenever the discriminant is <= 0, also for a
\* tangent ray whose tangent point's parameter lies inside the interval.
C3_NoHitUnlessPositive ==
    \A k \in DOMAIN queries :
        ~QGt(Disc(Query(k)), Zero) => Query(k).result = Miss

\* a tangent ray, its tangent point inside the interval
C3_Witness ==
    \E k \in DOMAIN queries :
        LET q == Query(k) IN
        /\ Disc(q) = Zero
        /\ Strictly(QDiv(QNeg(B(items[q.member], r)), A(r)), q)
        /\ q.result = Miss

\* C7: every Hit of Sphere.hit has position = origin + t * direction,
\* normal = (position - center) / radius of unit length, the position on the
\* sphere's surface, and the sphere's own material.
C7_HitRecord ==
    \A k \in DOMAIN queries :
        LET q == Query(k)
            s == items[q.member]
            h == q.result
        IN  h.kind = "Hit" =>
              /\ h.position = VAdd(r.origin, VScale(r.direction, h.t))
              /\ h.normal = VDiv(VSub(h.position, s.center), s.radius)
              /\ Dot(h.normal, h.normal) = One
              /\ Dot(VSub(h.position, s.center), VSub(h.position, s.center))
                    = QMul(s.radius, s.radius)
              /\ h.material = s.material

\* a Hit off the axes, by a ray whose direction is not of unit length
C7_Witness ==
    \E k \in DOMAIN queries :
        LET h == Query(k).result IN
        /\ h.kind = "Hit"
        /\ A(r) # One
        /\ h.normal[1] # Zero
        /\ h.normal[2] # Zero

Called(kind) == pc = "scattered" /\ Materials[mat].kind = kind

\* C4: on a Hit, Lambertian.scatter returns Some(ray) with origin = the hit
\* position and direction = normal + the random point, and sets attenuation
\* to the material's albedo.
C4_LambertianScatters ==
    (Called("Lambertian") /\ intersect.kind = "Hit") =>
        /\ scattered.some
        /\ scattered.ray.origin = intersect.position
        /\ scattered.ray.direction = VAdd(intersect.normal, rand)
        /\ attenuation = Materials[mat].albedo

\* scattered from a hit away from the origin with a random point that is not zero
C4_Witness ==
    /\ Called("Lambertian")
    /\ intersect.kind = "Hit"
    /\ intersect.position # V(0, 0, 0)
    /\ rand # V(0, 0, 0)
    /\ scattered.some

UnitIncident == VDiv(r.direction, Sqrt(Dot(r.direction, r.direction)))

Mirror ==
    VSub(UnitIncident,
         VScale(intersect.normal, QMul(I(2), Dot(UnitIncident, intersect.normal))))

\* C5: on a Hit, Metallic.scatter sets attenuation to the albedo, and returns
\* Some(ray) with origin = hit position and direction = d - 2*dot(d,n)*n for
\* the normalized incident direction d iff dot(reflected, normal) > 0, and
\* None otherwise.
C5_MetallicReflects ==
    (Called("Metallic") /\ intersect.kind = "Hit") =>
        /\ attenuation = Materials[mat].albedo
        /\ IF QGt(Dot(Mirror, intersect.normal), Zero)
           THEN scattered = Some(Ray(intersect.position, Mirror))
           ELSE scattered = None

\* a ray leaving a sphere from the inside, its direction not of unit length:
\* absorbed, the attenuation overwritten
C5_Witness ==
    /\ Called("Metallic")
    /\ intersect.kind = "Hit"
    /\ A(r) # One
    /\ ~QGt(Dot(Mirror, intersect.normal), Zero)
    /\ scattered = None
    /\ attenuation = Materials[mat].albedo

\* C6: scatter with a Miss returns None and leaves the caller's attenuation
\* as it was, for both materials.
C6_MissDoesNotScatter ==
    [][(pc = "done" /\ pc' = "scattered" /\ intersect.kind = "Miss")
          => (scattered' = None /\ attenuation' = attenuation)]_vars

\* a material called with the Miss of a scene that has members
C6_Witness ==
    /\ Called("Lambertian")
    /\ intersect.kind = "Miss"
    /\ items # <<>>
    /\ scattered = None
    /\ attenuation = V(0, 0, 0)

\* the t of the nearest hit accepted by the queries before the k-th, else t_max
RECURSIVE ClosestBefore(_)
ClosestBefore(k) ==
    IF k = 1 THEN t_max
    ELSE LET q == Query(k - 1)
         IN  IF q.result.kind = "Hit" /\ QLt(q.result.t, ClosestBefore(k - 1))
             THEN q.result.t
             ELSE ClosestBefore(k - 1)

\* C8 as stated: every member is queried in collection order with
\* (t_min, closest_so_far), so never with an upper bound larger than the t of
\* a hit already accepted.
C8_ShrinkingQuery ==
    \A k \in DOMAIN queries :
        /\ Query(k).member = k
        /\ Query(k).t_min = t_min
        /\ Query(k).t_max = Query(k).closest
        /\ Query(k).closest = ClosestBefore(k)

\* C8 amended: every member is queried in collection order with the fixed
\* interval (t_min, t_max); closest_so_far starts at t_max and is the t of the
\* nearest hit accepted so far, and only filters what the member returns.
C8_FixedQuery ==
    /\ \A k \in DOMAIN queries :
          /\ Query(k).member = k
          /\ Query(k).t_min = t_min
          /\ Query(k).t_max = t_max
          /\ Query(k).closest = ClosestBefore(k)
    /\ closest_so_far = ClosestBefore(Len(queries) + 1)
    /\ intersect.kind = "Hit" => intersect.t = closest_so_far

\* a member queried with t_max after a nearer hit was accepted
C8_Witness ==
    \E k \in DOMAIN queries :
        /\ QLt(Query(k).closest, t_max)
        /\ Query(k).t_max = t_max

\* C9: a candidate replaces the result only if its t is strictly less than
\* closest_so_far: of the members that hit at the minimal t the first in
\* collection order is returned, and closest_so_far never increases.
C9_FirstOfEqualWins ==
    /\ \A k \in DOMAIN queries :
          /\ ~QGt(Query(k).closest, t_max)
          /\ \A j \in 1..(k - 1) : ~QGt(Query(k).closest, Query(j).closest)
          /\ ~QGt(closest_so_far, Query(k).closest)
    /\ (pc = "done" /\ intersect.kind = "Hit") =>
          /\ winner \in HitMembers
          /\ intersect = MemberHit(winner)
          /\ \A k \in HitMembers :
                MemberHit(k).t = intersect.t => winner <= k

\* two members hit at the same minimal t with different materials and normals
C9_Witness ==
    /\ pc = "done"
    /\ intersect.kind = "Hit"
    /\ \E k \in HitMembers :
          /\ k > winner
          /\ MemberHit(k).t = intersect.t
          /\ MemberHit(k).material # intersect.material
          /\ MemberHit(k).normal # intersect.normal

\* the scan of spec section 4.3: each member queried with (t_min, closest_so_far)
RECURSIVE SpecScan(_, _, _, _, _, _, _)
SpecScan(its, k, ray, tmin, closest, result, who) ==
    IF k > Len(its) THEN [intersect |-> result, winner |-> who]
    ELSE LET cand == SphereHit(its[k], ray, tmin, closest)
         IN  IF cand.kind = "Hit" /\ QLt(cand.t, closest)
             THEN SpecScan(its, k + 1, ray, tmin, cand.t, cand, k)
             ELSE SpecScan(its, k + 1, ray, tmin, closest, result, who)

\* C10: the scan as coded returns the same Intersection and the same winning
\* member as the scan that queries each member with (t_min, closest_so_far);
\* a Hit reported with t >= closest_so_far changes nothing.
C10_SameAsShrinkingScan ==
    /\ pc = "done" =>
          LET spec == SpecScan(items, 1, r, t_min, t_max, Miss, 0)
          IN  intersect = spec.intersect /\ winner = spec.winner
    /\ \A k \in DOMAIN queries :
          LET q == Query(k)
              after == IF k < Len(queries) THEN Query(k + 1).closest
                       ELSE closest_so_far
          IN  (q.result.kind = "Hit" /\ ~QLt(q.result.t, q.closest))
                  => after = q.closest

\* a member reported a Hit beyond the nearest one so far, and it was discarded
C10_Witness ==
    /\ pc = "done"
    /\ intersect.kind = "Hit"
    /\ \E k \in DOMAIN queries :
          /\ Query(k).result.kind = "Hit"
          /\ QGt(Query(k).result.t, Query(k).closest)
          /\ winner < k

====
